---------------------------- MODULE Spec2Model ----------------------------
(***************************************************************************)
(* BigIPConfigParser (src/bigip_config_parser.py): the line preprocessor,  *)
(* the root grouper (group_objects), the object builder (orchestrate) and  *)
(* the document assembler (parse_files).                                   *)
(*                                                                         *)
(* A line is a TLA+ string and a file's text is a string with "\n"         *)
(* between its lines; the Python string methods the parser uses are        *)
(* operators over strings, computed character by character.                *)
(***************************************************************************)
EXTENDS Integers, Sequences, FiniteSets, TLC

(***************************************************************************)
(* Python string primitives                                                *)
(***************************************************************************)

\* the character at position i (1-based) of s
Char(s, i) == SubSeq(s, i, i)

\* what str.strip / str.lstrip / str.split() / the regex class \s treat as blank:
\* the characters c with c.isspace().  Whitespace lists, after the five escapes, the
\* characters U+000B, U+001C, U+001D, U+001E, U+001F, U+0085, U+00A0 and U+1680,
\* each written as itself.  Python's remaining blanks (U+2000 to U+200A, U+2028,
\* U+2029, U+202F, U+205F, U+3000) are characters no string of this module can
\* hold, so no line of the model contains one.
Whitespace == {" ", "\t", "\n", "\r", "\f", "", "", "", "", "", "", " ", " "}
IsSpace(c) == c \in Whitespace

\* s.startswith(p)
StartsWith(s, p) == Len(p) <= Len(s) /\ SubSeq(s, 1, Len(p)) = p

\* s.endswith(p)
EndsWith(s, p) == Len(p) <= Len(s) /\ SubSeq(s, Len(s) - Len(p) + 1, Len(s)) = p

\* sub in s
Contains(s, sub) ==
    \E i \in 1..(Len(s) - Len(sub) + 1) : SubSeq(s, i, i + Len(sub) - 1) = sub

\* s.index(sub), 1-based; 0 when sub does not occur (Python raises ValueError)
Index(s, sub) ==
    LET hits == {i \in 1..(Len(s) - Len(sub) + 1) : SubSeq(s, i, i + Len(sub) - 1) = sub}
    IN  IF hits = {} THEN 0 ELSE CHOOSE i \in hits : \A j \in hits : i <= j

\* s.count(ch) for a one-character ch
Count(s, ch) == Cardinality({i \in 1..Len(s) : Char(s, i) = ch})

\* the position of the first non-blank character of s, Len(s) + 1 when there is none
FirstNonSpace(s) ==
    LET ns == {i \in 1..Len(s) : ~IsSpace(Char(s, i))}
    IN  IF ns = {} THEN Len(s) + 1 ELSE CHOOSE i \in ns : \A j \in ns : i <= j

\* the position of the last non-blank character of s, 0 when there is none
LastNonSpace(s) ==
    LET ns == {i \in 1..Len(s) : ~IsSpace(Char(s, i))}
    IN  IF ns = {} THEN 0 ELSE CHOOSE i \in ns : \A j \in ns : i >= j

\* s.lstrip()
LStrip(s) == SubSeq(s, FirstNonSpace(s), Len(s))

\* s.strip()
Strip(s) == SubSeq(s, FirstNonSpace(s), LastNonSpace(s))

\* sep.join(arr)
RECURSIVE Join(_, _)
Join(arr, sep) ==
    IF Len(arr) = 0 THEN ""
    ELSE IF Len(arr) = 1 THEN arr[1]
    ELSE arr[1] \o sep \o Join(Tail(arr), sep)

\* s.split(sep) for a non-empty separator: the pieces between the occurrences of
\* sep, scanned left to right, empty pieces kept
RECURSIVE SplitOn(_, _)
SplitOn(s, sep) ==
    LET k == Index(s, sep)
    IN  IF k = 0 THEN <<s>>
        ELSE <<SubSeq(s, 1, k - 1)>> \o SplitOn(SubSeq(s, k + Len(sep), Len(s)), sep)

\* s.split(): the maximal runs of non-blank characters
RECURSIVE SplitWS(_)
SplitWS(s) ==
    LET b == FirstNonSpace(s)
    IN  IF b > Len(s) THEN <<>>
        ELSE LET sp == {i \in b..Len(s) : IsSpace(Char(s, i))}
                 e  == IF sp = {} THEN Len(s) + 1
                       ELSE CHOOSE i \in sp : \A j \in sp : i <= j
             IN  <<SubSeq(s, b, e - 1)>> \o SplitWS(SubSeq(s, e, Len(s)))

\* s.replace(old, new): every non-overlapping occurrence, left to right
RECURSIVE Replace(_, _, _)
Replace(s, old, new) ==
    LET k == Index(s, old)
    IN  IF k = 0 THEN s
        ELSE SubSeq(s, 1, k - 1) \o new \o Replace(SubSeq(s, k + Len(old), Len(s)), old, new)

\* re.sub(r'"[^"]*"', '', s): every double-quoted stretch removed, left to right;
\* a last unpaired quote and what follows it stay
RECURSIVE StripQuoted(_)
StripQuoted(s) ==
    LET q1 == Index(s, "\"")
    IN  IF q1 = 0 THEN s
        ELSE LET rest == SubSeq(s, q1 + 1, Len(s))
                 q2   == Index(rest, "\"")
             IN  IF q2 = 0 THEN s
                 ELSE SubSeq(s, 1, q1 - 1) \o StripQuoted(SubSeq(rest, q2 + 1, Len(rest)))

(***************************************************************************)
(* ConfigValue: what a key of the document maps to.  The tag keeps a       *)
(* string, a list of strings and a dict apart; a dict is a function from   *)
(* its keys to values.                                                     *)
(***************************************************************************)

\* a Python str value
Str(s) == [t |-> "str", v |-> s]

\* a Python list of str
List(a) == [t |-> "list", v |-> a]

\* a Python dict
Dict(f) == [t |-> "dict", v |-> f]

\* the dict {}
EmptyMap == [k \in {} |-> Str("")]

\* {k: v}
Single(k, v) == [x \in {k} |-> v]

\* a.update(b) for dicts a and b: b's entries win
Update(a, b) ==
    [k \in (DOMAIN a) \cup (DOMAIN b) |-> IF k \in DOMAIN b THEN b[k] ELSE a[k]]

\* the outcome of a call: a value, or the exception it raised with str(e)
Ok(x) == [err |-> FALSE, msg |-> "", val |-> x]
Raise(m) == [err |-> TRUE, msg |-> m, val |-> <<>>]

\* str(e) of the IndexError a list index past the end raises
IndexErrorMsg == "list index out of range"

\* str(e) of the ValueError str.index raises
SubstringErrorMsg == "substring not found"

\* str(e) of the ValueError unpacking "key, *rest" from an empty list raises
UnpackErrorMsg == "not enough values to unpack (expected at least 1, got 0)"

\* str(e) of the AttributeError .update raises on a str or a list
NoUpdateMsg(tag) == "'" \o tag \o "' object has no attribute 'update'"

(***************************************************************************)
(* The static helpers of BigIPConfigParser                                 *)
(***************************************************************************)

\* arr_to_multiline_str: the first token of the first line is the key, the rest
\* of that line and the other lines, joined with newlines, the value
arr_to_multiline_str(arr) ==
    LET toks  == SplitWS(Strip(arr[1]))
        first == Join(Tail(toks), " ")
    IN  Single(toks[1], Str(Join(<<first>> \o Tail(arr), "\n")))

\* count_indent
count_indent(string) == Len(string) - Len(LStrip(string))

\* get_title: re.sub(r'\s?\{\s?}?$', '', string).strip().  The pattern is an
\* optional blank, "{", an optional blank, an optional "}", and then "$", which
\* holds at the end of the string and also just before a newline that ends it.
\* BraceAt is the position of the "{" of a match whose last character is at e
\* (0 when there is none); the three forms exclude each other.
BraceAt(string, e) ==
    IF e >= 1 /\ Char(string, e) = "{" THEN e
    ELSE IF e >= 2 /\ Char(string, e - 1) = "{"
            /\ (IsSpace(Char(string, e)) \/ Char(string, e) = "}") THEN e - 1
    ELSE IF e >= 3 /\ Char(string, e - 2) = "{" /\ IsSpace(Char(string, e - 1))
            /\ Char(string, e) = "}" THEN e - 2
    ELSE 0
\* where a match with its "{" at b starts: at a blank just before b, else at b
MatchStart(string, b) == IF b >= 2 /\ IsSpace(Char(string, b - 1)) THEN b - 1 ELSE b
get_title(string) ==
    LET n  == Len(string)
        \* "{" of the match that ends at the end of the string
        b1 == BraceAt(string, n)
        \* "{" of the match that ends just before a final newline
        b2 == IF n >= 1 /\ Char(string, n) = "\n" THEN BraceAt(string, n - 1) ELSE 0
        \* re.sub replaces the leftmost match; what follows it is at most the
        \* final newline, which strip() removes
        st == IF b1 = 0 THEN MatchStart(string, b2)
              ELSE IF b2 = 0 THEN MatchStart(string, b1)
              ELSE IF MatchStart(string, b2) < MatchStart(string, b1)
                   THEN MatchStart(string, b2) ELSE MatchStart(string, b1)
    IN  IF b1 = 0 /\ b2 = 0 THEN Strip(string) ELSE Strip(SubSeq(string, 1, st - 1))

\* obj_to_arr: the tokens between the first "{" and the first "}" after it
obj_to_arr(line) ==
    SplitWS(Strip(SplitOn(SplitOn(line, "{")[2], "}")[1]))

\* remove_indent: four characters off every line indented by more than one
remove_indent(arr) ==
    [j \in 1..Len(arr) |->
        IF count_indent(arr[j]) > 1 THEN SubSeq(arr[j], 5, Len(arr[j])) ELSE arr[j]]

\* str_to_obj: {first token: the other tokens joined by one space}; an error on
\* a line with no token
str_to_obj(line) ==
    LET toks == SplitWS(Strip(line))
    IN  IF Len(toks) = 0 THEN Raise(UnpackErrorMsg)
        ELSE Ok(Single(toks[1], Str(Join(Tail(toks), " "))))

\* is_rule: the string holds the header of an ltm/gtm/pem rule
is_rule(string) ==
    \E rule \in {"ltm rule", "gtm rule", "pem irule"} : Contains(string, rule)

(***************************************************************************)
(* orchestrate: one object's lines to {title: value}                       *)
(***************************************************************************)

\* the message of the ValueError for a nested object with no "    }" line
MissingBraceMsg(line) == "Missing or mis-indented '}' for line: '" \o line \o "'"

\* the message of the ValueError for a multi-line string that never closes
UnclosedQuoteMsg(line) == "Unclosed quote in multiline string starting at: '" \o line \o "'"

\* the index of the first line equal to "    }" at or after i, 0 when there is none
\* (the generator handed to next(), line 106)
ClosingLine(arr, i) ==
    LET hits == {j \in i..Len(arr) : arr[j] = "    }"}
    IN  IF hits = {} THEN 0 ELSE CHOOSE j \in hits : \A k \in hits : j <= k

\* the value of c after the loop of lines 136-138: the loop runs over every line
\* from i on and has no break, so c ends as the index of the last line with an odd
\* number of double quotes; 0 stands for None (no such line)
QuoteClose(arr, i) ==
    LET hits == {j \in i..Len(arr) : Count(arr[j], "\"") % 2 = 1}
    IN  IF hits = {} THEN 0 ELSE CHOOSE j \in hits : \A k \in hits : j >= k

\* line 112: an unnamed object "    {" of the de-indented sub-range is named by
\* its (0-based) position
coerce_arr(sub_obj_arr) ==
    [j \in 1..Len(sub_obj_arr) |->
        IF sub_obj_arr[j] = "    {" THEN ToString(j - 1) \o " " \o sub_obj_arr[j]
        ELSE sub_obj_arr[j]]

\* line 153: obj.setdefault('user-defined', {}).update(inner) for the outcome
\* inner of str_to_obj on the property's value
MergeUserDefined(obj, cur, inner) ==
    IF inner.err THEN inner
    ELSE IF cur.t # "dict" THEN Raise(NoUpdateMsg(cur.t))
    ELSE Ok(Update(obj, Single("user-defined", Dict(Update(cur.v, inner.val)))))

\* lines 152-155 for the outcome parsed of str_to_obj on the line: under a
\* 'gtm monitor external' title a user-defined property is split again and
\* merged into the 'user-defined' sub-map, any other property is merged as it is
MergeTypical(key, obj, parsed) ==
    IF parsed.err THEN parsed
    ELSE IF StartsWith(key, "gtm monitor external") /\ "user-defined" \in DOMAIN parsed.val
    THEN MergeUserDefined(obj,
                          IF "user-defined" \in DOMAIN obj THEN obj["user-defined"]
                          ELSE Dict(EmptyMap),
                          str_to_obj(parsed.val["user-defined"].v))
    ELSE Ok(Update(obj, parsed.val))

\* lines 151-155: a regular one-line property merged into obj
TypicalString(key, obj, line) == MergeTypical(key, obj, str_to_obj(Strip(line)))

\* the shape of a body line, in the order the branches of lines 105-159 test it
LineShape(arr, line) ==
    IF EndsWith(line, "{") /\ Len(arr) # 1 THEN "nested"
    ELSE IF EndsWith(Strip(line), "{ }") THEN "empty"
    ELSE IF Contains(line, "{") /\ Contains(line, "}") /\ ~Contains(line, "\"") THEN "array"
    ELSE IF (Count(Strip(line), " ") = 0
             \/ (Len(Strip(line)) >= 2 /\ StartsWith(Strip(line), "\"")
                 /\ EndsWith(Strip(line), "\"")))
            /\ ~Contains(line, "}") THEN "flag"
    ELSE IF count_indent(line) = 4 THEN
        (IF Count(line, "\"") % 2 = 1 THEN "multiline" ELSE "string")
    ELSE "unexpected"

RECURSIVE orchestrate(_)
RECURSIVE OrchLoop(_, _, _, _)
RECURSIVE OrchNested(_, _, _, _, _)
RECURSIVE OrchMerge(_, _, _, _, _)
RECURSIVE OrchLine(_, _, _, _, _)

\* the while loop of lines 98-161 from index i (1-based) with obj built so far:
\* Ok of the finished obj, or the error raised
OrchLoop(key, arr, i, obj) ==
    IF i > Len(arr) THEN Ok(obj)
    ELSE OrchLine(key, arr, i, obj, LineShape(arr, arr[i]))

\* lines 106-116 for the closing line c found (0: none): the sub-range is
\* de-indented, coerced and parsed, and the loop goes on after line c
OrchNested(key, arr, i, obj, c) ==
    IF c = 0 THEN Raise(MissingBraceMsg(arr[i]))
    ELSE OrchMerge(key, arr, c, obj, orchestrate(coerce_arr(remove_indent(SubSeq(arr, i, c)))))

\* obj.update(r) for the outcome r of a step that ended at line c, and the loop
\* from the line after c
OrchMerge(key, arr, c, obj, r) ==
    IF r.err THEN r ELSE OrchLoop(key, arr, c + 1, Update(obj, r.val))

\* one turn of the loop, by the shape of line i
OrchLine(key, arr, i, obj, shape) ==
    CASE shape = "nested" -> OrchNested(key, arr, i, obj, ClosingLine(arr, i))
      [] shape = "empty" ->
            OrchLoop(key, arr, i + 1,
                     Update(obj, Single(Strip(SplitOn(arr[i], "{")[1]), Dict(EmptyMap))))
      [] shape = "array" ->
            OrchLoop(key, arr, i + 1,
                     Update(obj, Single(Strip(SplitOn(arr[i], "{")[1]), List(obj_to_arr(arr[i])))))
      [] shape = "flag" ->
            OrchLoop(key, arr, i + 1, Update(obj, Single(Strip(arr[i]), Str(""))))
      [] shape = "multiline" ->
            IF QuoteClose(arr, i) = 0 THEN Raise(UnclosedQuoteMsg(arr[i]))
            ELSE OrchLoop(key, arr, QuoteClose(arr, i) + 1,
                          Update(obj, arr_to_multiline_str(SubSeq(arr, i, QuoteClose(arr, i)))))
      [] shape = "string" ->
            OrchMerge(key, arr, i, EmptyMap, TypicalString(key, obj, arr[i]))
      [] OTHER -> OrchLoop(key, arr, i + 1, obj)

\* lines 78-95 and 163 for the title key and the body arr
OrchBody(key, arr0, arr) ==
    IF Len(arr0) <= 1 THEN Ok(Single(key, Dict(EmptyMap)))
    ELSE IF is_rule(key) THEN Ok(Single(key, Str(Join(arr, "\n"))))
    ELSE IF Contains(key, "monitor min")
        THEN Ok(Single(key, List(SplitWS(Join([j \in 1..Len(arr) |-> Strip(arr[j])], " ")))))
    ELSE IF Contains(key, "cli script") \/ Contains(key, "sys crypto cert-order-manager")
        THEN Ok(Single(key, Dict(EmptyMap)))
    ELSE LET r == OrchLoop(key, arr, 1, EmptyMap)
         IN  IF r.err THEN r ELSE Ok(Single(key, Dict(r.val)))

\* orchestrate(arr): Ok of the one-entry dict {title: value}, or the error
orchestrate(arr0) ==
    OrchBody(get_title(arr0[1]), arr0, SubSeq(arr0, 2, Len(arr0) - 1))

(***************************************************************************)
(* group_objects: the filtered lines to one group of lines per root object *)
(***************************************************************************)

\* lines 187-195: what a scanned line adds to bracket_count.  Under a rule header
\* a line starting with '#', 'set' or 'STREAM' adds nothing; otherwise escaped
\* quotes and then quoted stretches are dropped and the braces left are counted.
BracketDelta(line, rule_flag) ==
    LET st == Strip(line)
    IN  IF (StartsWith(st, "#") \/ StartsWith(st, "set") \/ StartsWith(st, "STREAM"))
           /\ rule_flag
        THEN 0
        ELSE LET updated_line == StripQuoted(Replace(st, "\\\"", ""))
             IN  Count(updated_line, "{") - Count(updated_line, "}")

\* the inner while loop of lines 183-200 for the header at index i (1-based):
\* the final c, or -1 when arr[i + c] runs past the end of the list (IndexError)
RECURSIVE ScanClose(_, _, _, _, _)
ScanClose(arr, i, c, bracket_count, rule_flag) ==
    IF bracket_count = 0 THEN c
    ELSE IF i + c + 1 > Len(arr) THEN -1
    ELSE LET line == arr[i + c + 1]
             bc   == bracket_count + BracketDelta(line, rule_flag)
         IN  IF is_rule(line) THEN c
             ELSE ScanClose(arr, i, c + 1, bc, rule_flag)

\* a variant of the slice that stops one line early, arr[i:i + c]
GroupSliceShort(arr, i, c) == SubSeq(arr, i, i + c - 1)

\* the slice arr[i:i + c + 1] appended at line 202, i 1-based
GroupSlice(arr, i, c) == SubSeq(arr, i, i + c)

\* the outer while loop of lines 169-204 from index i with the groups so far
RECURSIVE GroupLoop(_, _, _)
GroupLoop(arr, i, group) ==
    IF i > Len(arr) THEN Ok(group)
    ELSE
    LET current_line == arr[i]
    IN  IF Contains(current_line, "{") /\ Contains(current_line, "}")
           /\ ~StartsWith(current_line, " ")
        THEN GroupLoop(arr, i + 1, Append(group, <<current_line>>))
        ELSE IF EndsWith(Strip(current_line), "{") /\ ~StartsWith(current_line, " ")
        THEN LET c == ScanClose(arr, i, 0, 1, is_rule(current_line))
             IN  IF c < 0 THEN Raise(IndexErrorMsg)
                 ELSE GroupLoop(arr, i + c + 1, Append(group, GroupSlice(arr, i, c)))
        ELSE GroupLoop(arr, i + 1, group)

\* group_objects(arr)
group_objects(arr) == GroupLoop(arr, 1, <<>>)

(***************************************************************************)
(* parse_files                                                             *)
(***************************************************************************)

\* line 212: certs, keys and the license are not parsed
Excluded(name) ==
    \E x \in {"Common_d", "bigip_script.conf", ".license"} : Contains(name, x)

\* line 215: value.replace('\r\n', '\n').split('\n')
SplitLines(value) == SplitOn(Replace(value, "\r\n", "\n"), "\n")

\* lines 227-235: the line as the rest of the loop body sees it (a '# ' comment
\* met at script depth 0 is stripped and marked)
MarkComment(line, depth) ==
    IF depth = 0 /\ StartsWith(Strip(line), "# ")
    THEN Replace(Strip(line), "# ", "#comment# ")
    ELSE line

\* lines 227-235: the script depth after the line
NextDepth(line, depth) ==
    IF depth = 0
    THEN (IF StartsWith(Strip(line), "# ") THEN 0
          ELSE IF is_rule(line) THEN 1 ELSE 0)
    ELSE IF ~StartsWith(Strip(line), "#")
    THEN depth + Count(line, "{") - Count(line, "}")
    ELSE depth

\* lines 246-250: the three lines a topology directive contributes
TopologyRecord(line, n) ==
    LET ldns_index    == Index(line, "ldns:")
        server_index  == Index(line, "server:")
        bracket_index == Index(line, "{")
        ldns   == Strip(SubSeq(line, ldns_index + 5, server_index - 1))
        server == Strip(SubSeq(line, server_index + 7, bracket_index - 1))
    IN  << "        topology_" \o ToString(n) \o " {",
           "            source " \o ldns,
           "            destination " \o server >>

\* line 243: line.index raises when the directive lacks 'server:' or '{'
DirectiveOk(line) == Index(line, "server:") # 0 /\ Index(line, "{") # 0

\* lines 241-242: the wrapper opened by the file's first directive
TopologyHead == << "gtm topology /Common/Shared/topology {", "    records {" >>

\* lines 261-266: the lines closing a non-empty accumulator
TopologyTail(acc, lme) ==
    IF Len(acc) = 0 THEN <<>>
    ELSE << "        longest-match-enabled " \o (IF lme THEN "true" ELSE "false"),
            "    }", "}" >>

\* line 270: the lines kept by the final filter
RECURSIVE FilterLines(_)
FilterLines(arr) ==
    IF Len(arr) = 0 THEN <<>>
    ELSE LET line == Head(arr)
         IN  (IF line # "" /\ ~StartsWith(Strip(line), "#comment# ")
              THEN <<line>> ELSE <<>>) \o FilterLines(Tail(arr))

\* line 272: orchestrate over the groups in order; the first error ends it
RECURSIVE OrchestrateAll(_, _)
RECURSIVE OrchestrateNext(_, _, _)
OrchestrateAll(gs, acc) ==
    IF Len(gs) = 0 THEN Ok(acc) ELSE OrchestrateNext(gs, acc, orchestrate(Head(gs)))

\* the comprehension of line 272 after orchestrate returned r for its first group
OrchestrateNext(gs, acc, r) ==
    IF r.err THEN r ELSE OrchestrateAll(Tail(gs), Append(acc, r.val))

\* line 273: the one-entry dicts folded into one, later entries winning
RECURSIVE MergeAll(_)
MergeAll(ds) ==
    IF Len(ds) = 0 THEN EmptyMap
    ELSE Update(Head(ds), MergeAll(Tail(ds)))

\* line 278: the message of the exception parse_files raises
ErrorMessage(msg) == "Error parsing input file. Error as following error:\n" \o msg

\* the per-file state of lines 218-223 (and the irule counter of line 222)
FreshFile ==
    [new_file_arr |-> <<>>, topology_arr |-> <<>>, topology_count |-> 0,
     longest_match_enabled |-> FALSE, in_topology |-> FALSE, irule |-> 0,
     err |-> FALSE]

\* lines 240-242: the accumulator with the wrapper opened by the first directive
OpenTopology(acc) == IF Len(acc) = 0 THEN TopologyHead ELSE acc

\* lines 237-259: what one turn of the loop does with the line as marked, at the
\* script depth after it; err is set when line 243 raises
Dispatch(s, line, depth) ==
    IF Contains(line, "topology-longest-match") /\ Contains(line, "yes")
    THEN [s EXCEPT !.irule = depth, !.longest_match_enabled = TRUE]
    ELSE IF StartsWith(line, "gtm topology ldns:")
    THEN (IF DirectiveOk(line)
          THEN [s EXCEPT !.irule = depth, !.in_topology = TRUE,
                         !.topology_arr = OpenTopology(s.topology_arr)
                                          \o TopologyRecord(line, s.topology_count),
                         !.topology_count = s.topology_count + 1]
          ELSE [s EXCEPT !.irule = depth, !.in_topology = TRUE,
                         !.topology_arr = OpenTopology(s.topology_arr),
                         !.err = TRUE])
    ELSE IF s.in_topology
    THEN (IF line = "}"
          THEN [s EXCEPT !.irule = depth, !.in_topology = FALSE,
                         !.topology_arr = Append(s.topology_arr, "        }")]
          ELSE [s EXCEPT !.irule = depth,
                         !.topology_arr = Append(s.topology_arr, "        " \o line)])
    ELSE [s EXCEPT !.irule = depth, !.new_file_arr = Append(s.new_file_arr, line)]

\* lines 225-259: one turn of the preprocessing loop on the raw line
PreStep(s, raw) == Dispatch(s, MarkComment(raw, s.irule), NextDepth(raw, s.irule))

\* lines 261-268: the accumulator closed and appended to the lines passed through
Concat(s) ==
    s.new_file_arr \o s.topology_arr
    \o TopologyTail(s.topology_arr, s.longest_match_enabled)

\* lines 225-259: the loop over lines[i..], from the state s; it stops at an error
RECURSIVE PreAll(_, _, _)
PreAll(s, lines, i) ==
    IF i > Len(lines) \/ s.err THEN s ELSE PreAll(PreStep(s, lines[i]), lines, i + 1)

\* lines 215-273 for one file's text: Ok of the dict of its root objects, or the
\* error raised
ParseOne(value) ==
    LET s == PreAll(FreshFile, SplitLines(value), 1)
    IN  IF s.err THEN Raise(SubstringErrorMsg)
        ELSE LET g == group_objects(FilterLines(Concat(s)))
             IN  IF g.err THEN g
                 ELSE LET o == OrchestrateAll(g.val, <<>>)
                      IN  IF o.err THEN o ELSE Ok(MergeAll(o.val))

(***************************************************************************)
(* The inputs: a batch is a mapping, in iteration order, from a file name  *)
(* to the file's text.  A text is made of blocks of the library below.     *)
(***************************************************************************)

\* the most files in a batch
MaxFiles == 2

\* the most library blocks in a batch, over all its files
MaxBlocks == 2

\* the file names a batch draws from, in the order it keeps them
FileNames == << "bigip.conf", "bigip_script.conf", "bigip_base.conf" >>

Library == <<
    \* 1: a pool with a quoted brace, a nested object and a property
    << "ltm pool p {", "    d \"a { b\"", "    m {", "        x y", "    }", "}" >>,
    \* 2: a one-line empty object
    << "ltm node n { }" >>,
    \* 3: the pool of block 1 again, with another body
    << "ltm pool p {", "    min 2", "}" >>,
    \* 4: a root object with no closing brace
    << "ltm pool u {", "    min 1" >>,
    \* 5: a rule with a nested block, a comment and a set statement
    << "ltm rule r {", "when X {", "    # c", "    set y 1", "}", "}" >>,
    \* 6: a rule with an empty line in its body
    << "ltm rule b {", "    a", "", "    c", "}" >>,
    \* 7: a rule with an escaped brace inside a quoted string
    << "ltm rule q {", "    log \"a \\{\"", "}" >>,
    \* 8: a comment line, then an object with a comment line in its body
    << "# note", "sys s {", "    # in", "    k v", "}" >>,
    \* 9: two topology directives, each closed by a line of its own
    << "gtm topology ldns: n1 server: n2 {", "    order 1", "}",
       "gtm topology ldns: n3 server: n4 {", "}" >>,
    \* 10: two topology directives written on one line each
    << "gtm topology ldns: n1 server: n2 { }", "gtm topology ldns: n3 server: n4 { }" >>,
    \* 11: the longest-match setting
    << "gtm global-settings load-balancing {", "    topology-longest-match yes", "}" >>,
    \* 12: a nested object whose closing brace is mis-indented
    << "ltm pool v {", "    m {", "        x y", "      }", "}" >>,
    \* 13: two multi-line quoted strings in one body
    << "sys w {", "    d \"a", "    b\"", "    k v", "    e \"x", "    y\"", "    j u", "}" >>,
    \* 14: a property with one double quote and no closing line
    << "sys o {", "    d \"abc", "    k v", "}" >>,
    \* 15: a rule marker inside a quoted property of a pool
    << "ltm pool z {", "    k v", "    d \"ltm rule x\"", "}" >>,
    \* 16: a nested 'monitor min' list with a block inside it, then a property
    << "ltm pool w {", "    monitor min 1 of {", "        a {", "        }", "    }",
       "    k v", "}" >>
>>

\* the strictly increasing sequences of n numbers of 1..m
Increasing(n, m) == {f \in [1..n -> 1..m] : \A a, c \in 1..n : a < c => f[a] < f[c]}

\* the choices of at most MaxBlocks library blocks, in library order
BlockSeqs == UNION {Increasing(n, Len(Library)) : n \in 0..MaxBlocks}

\* the lines of the blocks bs[from..to], in order
RECURSIVE BlockLines(_, _, _)
BlockLines(bs, from, to) ==
    IF from > to THEN <<>> ELSE Library[bs[from]] \o BlockLines(bs, from + 1, to)

\* a file's text: every line ended by a newline
RECURSIVE TextOf(_)
TextOf(lines) == IF Len(lines) = 0 THEN "" ELSE Head(lines) \o "\n" \o TextOf(Tail(lines))

\* the batch of the files numbered ns, the blocks bs cut among them at cuts
Batch(ns, bs, cuts) ==
    [k \in 1..Len(ns) |->
        [name |-> FileNames[ns[k]],
         text |-> TextOf(BlockLines(bs, (IF k = 1 THEN 0 ELSE cuts[k - 1]) + 1,
                                        IF k = Len(ns) THEN Len(bs) ELSE cuts[k]))]]

\* the nondecreasing cut points of m blocks among n files
Cuts(n, m) ==
    {f \in [1..(n - 1) -> 0..m] : \A a, c \in 1..(n - 1) : a <= c => f[a] <= f[c]}

Batches ==
    UNION { UNION { { Batch(ns, bs, cuts) :
                        ns \in Increasing(n, Len(FileNames)), cuts \in Cuts(n, Len(bs)) }
                    : bs \in BlockSeqs }
            : n \in 0..MaxFiles }

(***************************************************************************)
(* The state of one parse_files call                                       *)
(***************************************************************************)

VARIABLES
    files,                  \* the argument: the batch
    pc,                     \* where the call is
    fi,                     \* the position of the for loop of line 210 in files
    data,                   \* the document built so far
    file_arr,               \* the current file's lines (raw, then filtered)
    li,                     \* the position of the for loop of line 225 in file_arr
    new_file_arr,           \* the lines passed through
    topology_arr,           \* self.topology_arr
    topology_count,         \* self.topology_count
    longest_match_enabled,  \* self.longest_match_enabled
    in_topology,            \* inside a topology directive's body
    irule,                  \* the script depth counter
    groups,                 \* what group_objects returned
    group_arr,              \* the one-entry dicts orchestrate returned
    result,                 \* the document returned
    error                   \* the message of the exception raised

vars == << files, pc, fi, data, file_arr, li, new_file_arr, topology_arr, topology_count,
           longest_match_enabled, in_topology, irule, groups, group_arr, result, error >>

pre_vars == << file_arr, li, new_file_arr, topology_arr, topology_count,
               longest_match_enabled, in_topology, irule >>

\* BigIPConfigParser() and the entry of parse_files(files): data = {}
Init ==
    /\ files \in Batches
    /\ pc = "files"
    /\ fi = 1
    /\ data = EmptyMap
    /\ file_arr = <<>>
    /\ li = 1
    /\ new_file_arr = FreshFile.new_file_arr
    /\ topology_arr = FreshFile.topology_arr
    /\ topology_count = FreshFile.topology_count
    /\ longest_match_enabled = FreshFile.longest_match_enabled
    /\ in_topology = FreshFile.in_topology
    /\ irule = FreshFile.irule
    /\ groups = <<>>
    /\ group_arr = <<>>
    /\ result = EmptyMap
    /\ error = ""

\* the per-file state the loop of line 225 works on
Current ==
    [new_file_arr |-> new_file_arr, topology_arr |-> topology_arr,
     topology_count |-> topology_count,
     longest_match_enabled |-> longest_match_enabled, in_topology |-> in_topology,
     irule |-> irule, err |-> FALSE]

\* the except clause of lines 276-279: the call ends raising the wrapped message
Fail(msg) ==
    /\ pc' = "raised"
    /\ error' = ErrorMessage(msg)

\* the per-file state becomes s
Store(s) ==
    /\ new_file_arr' = s.new_file_arr
    /\ topology_arr' = s.topology_arr
    /\ topology_count' = s.topology_count
    /\ longest_match_enabled' = s.longest_match_enabled
    /\ in_topology' = s.in_topology
    /\ irule' = s.irule

\* lines 210-213: a file with an excluded name is passed over
SkipFile ==
    /\ pc = "files"
    /\ fi <= Len(files)
    /\ Excluded(files[fi].name)
    /\ fi' = fi + 1
    /\ UNCHANGED << files, pc, data, pre_vars, groups, group_arr, result, error >>

\* a variant of the reset that splits the new file's lines and keeps the rest of
\* the per-file state of the file before
ResetFileLinesOnly(value) ==
    /\ file_arr' = SplitLines(value)
    /\ UNCHANGED << new_file_arr, topology_arr, topology_count, longest_match_enabled,
                    in_topology, irule >>

\* the per-file state as lines 215-223 set it
ResetFile(value) ==
    /\ file_arr' = SplitLines(value)
    /\ Store(FreshFile)

\* lines 210-223: the next file is split into lines and the per-file state reset
StartFile ==
    /\ pc = "files"
    /\ fi <= Len(files)
    /\ ~Excluded(files[fi].name)
    /\ ResetFile(files[fi].text)
    /\ li' = 1
    /\ pc' = "lines"
    /\ UNCHANGED << files, fi, data, groups, group_arr, result, error >>

\* the turn of the loop ends in the state s, or in the except clause
EndTurn(s) ==
    /\ Store(s)
    /\ IF s.err THEN Fail(SubstringErrorMsg) ELSE UNCHANGED << pc, error >>

\* lines 225-259: one turn of the preprocessing loop
PreprocessLine ==
    /\ pc = "lines"
    /\ li <= Len(file_arr)
    /\ EndTurn(PreStep(Current, file_arr[li]))
    /\ li' = li + 1
    /\ UNCHANGED << files, fi, data, file_arr, groups, group_arr, result >>

\* lines 261-270: the accumulator is closed and appended, and the lines filtered
FinishPreprocess ==
    /\ pc = "lines"
    /\ li > Len(file_arr)
    /\ topology_arr' = topology_arr \o TopologyTail(topology_arr, longest_match_enabled)
    /\ file_arr' = FilterLines(Concat(Current))
    /\ pc' = "group"
    /\ UNCHANGED << files, fi, data, li, new_file_arr, topology_count,
                    longest_match_enabled, in_topology, irule, groups, group_arr,
                    result, error >>

\* line 272: group_objects(file_arr)
GroupObjects ==
    /\ pc = "group"
    /\ LET r == group_objects(file_arr)
       IN  IF r.err
           THEN Fail(r.msg) /\ UNCHANGED groups
           ELSE pc' = "orchestrate" /\ groups' = r.val /\ UNCHANGED error
    /\ UNCHANGED << files, fi, data, pre_vars, group_arr, result >>

\* line 272: orchestrate(obj) for every group
Orchestrate ==
    /\ pc = "orchestrate"
    /\ LET r == OrchestrateAll(groups, <<>>)
       IN  IF r.err
           THEN Fail(r.msg) /\ UNCHANGED group_arr
           ELSE pc' = "merge" /\ group_arr' = r.val /\ UNCHANGED error
    /\ UNCHANGED << files, fi, data, pre_vars, groups, result >>

\* line 273: the file's objects are merged into the document
MergeFile ==
    /\ pc = "merge"
    /\ data' = Update(data, MergeAll(group_arr))
    /\ fi' = fi + 1
    /\ pc' = "files"
    /\ UNCHANGED << files, pre_vars, groups, group_arr, result, error >>

\* line 275: return data
Return ==
    /\ pc = "files"
    /\ fi > Len(files)
    /\ result' = data
    /\ pc' = "returned"
    /\ UNCHANGED << files, fi, data, pre_vars, groups, group_arr, error >>

Next ==
    \/ SkipFile
    \/ StartFile
    \/ PreprocessLine
    \/ FinishPreprocess
    \/ GroupObjects
    \/ Orchestrate
    \/ MergeFile
    \/ Return

Spec == Init /\ [][Next]_vars


(***************************************************************************)
(* What the properties below speak of: the structure of the input lines,   *)
(* read off the lines themselves                                           *)
(***************************************************************************)

\* the raw lines of file k of the batch
RawLines(k) == SplitLines(files[k].text)

\* the lines of a sequence, as a set
Range(seq) == {seq[j] : j \in 1..Len(seq)}

\* the lines that are not empty
NonEmpty(lines) == SelectSeq(lines, LAMBDA l : l # "")

\* the groups one after the other
RECURSIVE Flatten(_)
Flatten(gs) == IF Len(gs) = 0 THEN <<>> ELSE Head(gs) \o Flatten(Tail(gs))

\* n blanks
RECURSIVE Blanks(_)
Blanks(n) == IF n = 0 THEN "" ELSE " " \o Blanks(n - 1)

\* the braces of s[i..] outside double quotes, opened minus closed; a backslash
\* escapes the character after it
RECURSIVE NetFrom(_, _, _)
NetFrom(s, i, quoted) ==
    IF i > Len(s) THEN 0
    ELSE IF Char(s, i) = "\\" THEN NetFrom(s, i + 2, quoted)
    ELSE IF Char(s, i) = "\"" THEN NetFrom(s, i + 1, ~quoted)
    ELSE (IF quoted THEN 0
          ELSE IF Char(s, i) = "{" THEN 1
          ELSE IF Char(s, i) = "}" THEN -1 ELSE 0) + NetFrom(s, i + 1, quoted)

\* the braces of a line that are not inside double quotes, opened minus closed
Net(line) == NetFrom(line, 1, FALSE)

\* lines[i..] is the rest of a list of well-formed root objects, d objects being
\* open: a root object is one line "name { ... }" or a header "name {" at column
\* 0, its body indented by 4 more per level, and a "}" at the header's column
RECURSIVE WellFormedFrom(_, _, _)
WellFormedFrom(lines, i, d) ==
    IF i > Len(lines) THEN d = 0
    ELSE IF d = 0
    THEN /\ ~StartsWith(lines[i], " ")
         /\ IF EndsWith(lines[i], "{") THEN WellFormedFrom(lines, i + 1, 1)
            ELSE /\ Contains(lines[i], "{") /\ EndsWith(lines[i], "}")
                 /\ Net(lines[i]) = 0
                 /\ WellFormedFrom(lines, i + 1, 0)
    ELSE IF lines[i] = Blanks(4 * (d - 1)) \o "}" THEN WellFormedFrom(lines, i + 1, d - 1)
    ELSE /\ Len(lines[i]) - Len(LStrip(lines[i])) = 4 * d
         /\ IF EndsWith(lines[i], "{") THEN WellFormedFrom(lines, i + 1, d + 1)
            ELSE Net(lines[i]) = 0 /\ WellFormedFrom(lines, i + 1, d)

\* the lines are well-formed, brace-balanced root objects and nothing else
WellFormed(lines) == WellFormedFrom(lines, 1, 0)

\* the header of a root object: a line at column 0 with an open brace
IsRootHeader(line) == ~StartsWith(line, " ") /\ Contains(line, "{")

\* the header of a root-level script/rule object
IsRuleHeader(line) == IsRootHeader(line) /\ EndsWith(Strip(line), "{") /\ is_rule(line)

\* no root object of the lines is a script/rule object
NoScripts(lines) ==
    \A j \in 1..Len(lines) :
        IsRootHeader(lines[j]) => ~is_rule(lines[j]) /\ ~Contains(lines[j], "cli script")

\* the line closing the script whose body starts at line j with bal braces open:
\* comment lines and quoted braces do not count; Len(lines) + 1 when none does
RECURSIVE ScriptEnd(_, _, _)
ScriptEnd(lines, j, bal) ==
    IF j > Len(lines) THEN Len(lines) + 1
    ELSE IF StartsWith(Strip(lines[j]), "#") THEN ScriptEnd(lines, j + 1, bal)
    ELSE IF bal + Net(lines[j]) = 0 THEN j
    ELSE ScriptEnd(lines, j + 1, bal + Net(lines[j]))

\* line j lies in a script/rule body: after a rule header, up to its closing brace
InScript(lines, j) ==
    \E h \in 1..(j - 1) : IsRuleHeader(lines[h]) /\ j <= ScriptEnd(lines, h + 1, 1)

\* a topology directive line
IsDirective(line) == StartsWith(line, "gtm topology ldns:")

\* the lines[j..] that are neither a directive nor in a directive's body, which
\* runs to the next line that is "}"; inside says line j is in such a body
RECURSIVE NotDiverted(_, _, _)
NotDiverted(lines, j, inside) ==
    IF j > Len(lines) THEN <<>>
    ELSE IF IsDirective(lines[j]) THEN NotDiverted(lines, j + 1, TRUE)
    ELSE IF inside THEN NotDiverted(lines, j + 1, lines[j] # "}")
    ELSE <<lines[j]>> \o NotDiverted(lines, j + 1, FALSE)

\* the line sets topology-longest-match to yes
IsLongestMatch(line) == Contains(line, "topology-longest-match") /\ Contains(line, "yes")

\* a group orchestrate builds an ObjectMap from: more than a header, and a title
\* that is no rule, no 'monitor min', no cli script, no cert-order-manager
BuildsMap(arr0) ==
    /\ Len(arr0) > 1
    /\ ~is_rule(get_title(arr0[1]))
    /\ ~Contains(get_title(arr0[1]), "monitor min")
    /\ ~Contains(get_title(arr0[1]), "cli script")
    /\ ~Contains(get_title(arr0[1]), "sys crypto cert-order-manager")

\* the body of a group: the lines between its first and its last
Body(arr0) == SubSeq(arr0, 2, Len(arr0) - 1)

\* the line has an odd number of double quotes
OddQuotes(line) == Count(line, "\"") % 2 = 1

\* the first token of a property line, and the text after it
KeyOf(line) == SplitWS(line)[1]
ValueOf(line) == Join(Tail(SplitWS(line)), " ")

\* a property line at indentation 4: a key and a value, no brace
IsProperty(line) ==
    /\ Len(line) - Len(LStrip(line)) = 4
    /\ Len(SplitWS(line)) >= 2
    /\ ~Contains(line, "{") /\ ~Contains(line, "}")

\* an ordinary one-line property: its quotes are closed
IsPlain(line) == IsProperty(line) /\ ~OddQuotes(line) /\ ~StartsWith(Strip(line), "\"")

\* line i of the body opens a multi-line string: a property with an odd number
\* of double quotes, after nothing but ordinary properties
Opens(body, i) ==
    /\ IsProperty(body[i]) /\ OddQuotes(body[i])
    /\ \A j \in 1..(i - 1) : IsPlain(body[j])

\* the next line after i with an odd number of double quotes, 0 when none
NextOdd(body, i) ==
    LET hits == {j \in (i + 1)..Len(body) : OddQuotes(body[j])}
    IN  IF hits = {} THEN 0 ELSE CHOOSE j \in hits : \A k \in hits : j <= k

\* the key of line j is the first token of no other line of the body
KeyOnce(body, j) ==
    \A k \in 1..Len(body) :
        k # j /\ Len(SplitWS(body[k])) > 0 => KeyOf(body[k]) # KeyOf(body[j])

\* the brace balance after line k of a group, as the scan of lines 183-195 counts
\* it: 1 for the header, then what each line adds
RECURSIVE Balance(_, _)
Balance(g, k) ==
    IF k <= 1 THEN 1 ELSE Balance(g, k - 1) + BracketDelta(g[k], is_rule(g[1]))

\* the balance of the group is zero at its last line and at no line before
ClosesAtLast(g) ==
    /\ Balance(g, Len(g)) = 0
    /\ \A k \in 1..(Len(g) - 1) : Balance(g, k) # 0

\* the group starts with an open-brace header
OpenHeader(g) ==
    /\ ~StartsWith(g[1], " ")
    /\ EndsWith(Strip(g[1]), "{")
    /\ ~Contains(g[1], "}")

\* the group lies in the lines just before a line with a rule marker, and its
\* balance is zero at none of its lines: the scan was cut at that line
CutAtRule(lines, g) ==
    /\ \A k \in 1..Len(g) : Balance(g, k) # 0
    /\ \E i \in 1..Len(lines) :
        /\ i + Len(g) <= Len(lines)
        /\ SubSeq(lines, i, i + Len(g) - 1) = g
        /\ is_rule(lines[i + Len(g)])

\* the last line of the loop turn that starts at line i: the closing line of a
\* nested object (line 116), the closing line of a multi-line string (line 147),
\* else line i itself
TurnEnd(arr, i, shape) ==
    IF shape = "nested" /\ ClosingLine(arr, i) # 0 THEN ClosingLine(arr, i)
    ELSE IF shape = "multiline" /\ QuoteClose(arr, i) # 0 THEN QuoteClose(arr, i)
    ELSE i

\* one turn of the loop of lines 99-161 at line i with obj built so far: Ok of
\* obj after the turn, or the error the turn raises (the loop is run on the
\* lines up to the end of the turn, so it stops after this turn)
Turn(key, arr, i, obj) ==
    OrchLine(key, SubSeq(arr, 1, TurnEnd(arr, i, LineShape(arr, arr[i]))), i, obj,
             LineShape(arr, arr[i]))

\* the line ranges orchestrate slices (arr[i:c+1], line 109) from the loop turn
\* at line i on, for the title key, the body arr and obj built so far: the range
\* of a nested object, the ranges sliced while that object is parsed, and, when
\* the turn raises nothing, the ranges of the turns after it.  A nested array
\* with one line, or whose title is a rule, a 'monitor min', a cli script or a
\* cert-order-manager, returns before the loop and slices nothing.
RECURSIVE NestedFrom(_, _, _, _), NestedRanges(_)
NestedFrom(key, arr, i, obj) ==
    IF i > Len(arr) THEN {}
    ELSE LET shape == LineShape(arr, arr[i])
             c == ClosingLine(arr, i)
             r == Turn(key, arr, i, obj)
         IN  (IF shape = "nested" /\ c # 0
              THEN {SubSeq(arr, i, c)}
                   \cup NestedRanges(coerce_arr(remove_indent(SubSeq(arr, i, c))))
              ELSE {})
             \cup (IF r.err THEN {}
                   ELSE NestedFrom(key, arr, TurnEnd(arr, i, shape) + 1, r.val))

\* the line ranges orchestrate(arr0) slices, until it returns or raises
NestedRanges(arr0) ==
    IF BuildsMap(arr0) THEN NestedFrom(get_title(arr0[1]), Body(arr0), 1, EmptyMap) ELSE {}

(***************************************************************************)
(* The properties                                                          *)
(***************************************************************************)

\* C1: for filtered lines that are only well-formed, brace-balanced root objects,
\* none of them a script/rule object, group_objects returns one group per
\* column-0 object header, and the groups one after the other are the lines
C1_OneGroupPerObject ==
    (pc = "orchestrate" /\ WellFormed(file_arr) /\ NoScripts(file_arr)) =>
        /\ Len(groups) = Cardinality({j \in 1..Len(file_arr) : IsRootHeader(file_arr[j])})
        /\ Flatten(groups) = file_arr

\* C2: in the document returned, the title of every root-level script/rule object
\* with balanced braces maps to the newline-join of all the original body lines
\* between its header and its closing brace, unchanged and in order
C2_RuleBodyVerbatim ==
    pc = "returned" =>
        \A k \in 1..Len(files) : ~Excluded(files[k].name) =>
            \A h \in 1..Len(RawLines(k)) :
                LET lines == RawLines(k)
                    e == ScriptEnd(lines, h + 1, 1)
                IN  (IsRuleHeader(lines[h]) /\ ~InScript(lines, h)
                     /\ e <= Len(lines) /\ lines[e] = "}") =>
                        /\ get_title(lines[h]) \in DOMAIN result
                        /\ result[get_title(lines[h])]
                             = Str(Join(SubSeq(lines, h + 1, e - 1), "\n"))

\* the document holds, under the topology key, records with topology_<n> for the
\* n-th directive of ds (from 0), its source and destination those of the
\* directive, and longest-match-enabled 'true' at the level of the records
TopologyDocument(doc, ds) ==
    /\ "gtm topology /Common/Shared/topology" \in DOMAIN doc
    /\ LET top == doc["gtm topology /Common/Shared/topology"]
       IN  /\ top.t = "dict"
           /\ "records" \in DOMAIN top.v
           /\ top.v["records"].t = "dict"
           /\ LET recs == top.v["records"].v
              IN  /\ \A n \in 1..Len(ds) :
                        LET name == "topology_" \o ToString(n - 1)
                        IN  /\ name \in DOMAIN recs
                            /\ recs[name].t = "dict"
                            /\ "source" \in DOMAIN recs[name].v
                            /\ recs[name].v["source"] = Str(SplitWS(ds[n])[4])
                            /\ "destination" \in DOMAIN recs[name].v
                            /\ recs[name].v["destination"] = Str(SplitWS(ds[n])[6])
                  /\ "longest-match-enabled" \in DOMAIN recs
                  /\ recs["longest-match-enabled"] = Str("true")

\* the lines hold two directives "gtm topology ldns: <s> server: <d> {" ending as
\* given, and besides them and their bodies one object, which holds the line
\* setting topology-longest-match to yes
TwoDirectives(lines, ending, rest) ==
    /\ Len(SelectSeq(lines, IsDirective)) = 2
    /\ \A j \in 1..Len(lines) : IsDirective(lines[j]) =>
            /\ EndsWith(lines[j], ending)
            /\ Len(SplitWS(lines[j])) >= 7
            /\ SplitWS(lines[j])[3] = "ldns:" /\ SplitWS(lines[j])[5] = "server:"
    /\ Len(rest) = 3
    /\ IsRootHeader(rest[1]) /\ EndsWith(rest[1], "{")
    /\ IsLongestMatch(rest[2])
    /\ rest[3] = "}"

\* the batch is one file of two one-line directives "... { }" and the setting
OneLineDirectives ==
    /\ Len(files) = 1 /\ ~Excluded(files[1].name)
    /\ TwoDirectives(RawLines(1), "{ }",
                     NonEmpty(SelectSeq(RawLines(1), LAMBDA l : ~IsDirective(l))))

\* the batch is one file of two directives, each opened by "... {" and closed by
\* a later line "}" of its own, and the setting
BlockDirectives ==
    /\ Len(files) = 1 /\ ~Excluded(files[1].name)
    /\ TwoDirectives(RawLines(1), " {", NonEmpty(NotDiverted(RawLines(1), 1, FALSE)))
    /\ \A j \in 1..Len(RawLines(1)) : IsDirective(RawLines(1)[j]) =>
            \E e \in (j + 1)..Len(RawLines(1)) :
                /\ RawLines(1)[e] = "}"
                /\ \A m \in (j + 1)..e : ~IsDirective(RawLines(1)[m])

\* C3: a file with two directives "gtm topology ldns: <s> server: <d> { }" and
\* the longest-match setting is parsed to a document with the two records,
\* numbered in order of appearance, and longest-match-enabled 'true'
C3_OneLineTopology ==
    (pc \in {"returned", "raised"} /\ OneLineDirectives) =>
        /\ pc = "returned"
        /\ TopologyDocument(result, SelectSeq(RawLines(1), IsDirective))

\* the same for directives whose closing brace stands on a later line of its
\* own: the document has the two records and longest-match-enabled 'true'
BlockTopologyDocument ==
    (pc \in {"returned", "raised"} /\ BlockDirectives) =>
        /\ pc = "returned"
        /\ TopologyDocument(result, SelectSeq(RawLines(1), IsDirective))

\* the call returned for a file of two closed directives and the setting
BlockTopologyReturned ==
    /\ pc = "returned"
    /\ BlockDirectives
    /\ "gtm topology /Common/Shared/topology" \in DOMAIN result

\* the current file's brace scan runs out: group_objects runs past the last
\* line, or orchestrate finds no "    }" for a nested header
ScanExhausted ==
    LET g == group_objects(file_arr)
    IN  IF g.err THEN g.msg = IndexErrorMsg
        ELSE LET o == OrchestrateAll(g.val, <<>>)
             IN  o.err /\ StartsWith(o.msg, "Missing or mis-indented")

\* C4: when a brace scan runs out of lines, the call fails with an error whose
\* message names the header line left open, and returns no document
C4_MissingBraceNamesHeader ==
    (pc = "raised" /\ ScanExhausted) =>
        /\ \E j \in 1..Len(file_arr) :
                /\ EndsWith(Strip(file_arr[j]), "{")
                /\ Contains(error, Strip(file_arr[j]))
        /\ result = EmptyMap

\* each file of the batch parsed on its own; an excluded file gives no objects
ParsedAlone ==
    [k \in 1..Len(files) |->
        IF Excluded(files[k].name) THEN Ok(EmptyMap) ELSE ParseOne(files[k].text)]

\* the merge, in order, of the dicts ds[k..] into acc
RECURSIVE MergeFrom(_, _, _)
MergeFrom(ds, k, acc) ==
    IF k > Len(ds) THEN acc ELSE MergeFrom(ds, k + 1, Update(acc, ds[k].val))

\* doc is the merge of the outcomes ds, none an error: every key of doc has the
\* value of the last of ds that defines it
IsMergeOf(doc, ds) ==
    /\ \A k \in 1..Len(ds) : ~ds[k].err
    /\ doc = MergeFrom(ds, 1, EmptyMap)
    /\ \A k \in 1..Len(ds) : \A key \in DOMAIN ds[k].val :
            (\A m \in (k + 1)..Len(ds) : key \notin DOMAIN ds[m].val)
                => doc[key] = ds[k].val[key]

\* C5: the document returned is the merge, in the mapping's order, of the root
\* objects of each non-excluded file parsed on its own; an excluded file adds
\* nothing and of two files defining the same name the later one's value stays
C5_MergeOfFiles == pc = "returned" => IsMergeOf(result, ParsedAlone)

\* two of the outcomes define the same key with different values, and doc has
\* the later one's
LaterWins(doc, ds) ==
    \E key \in DOMAIN ds[1].val \cap DOMAIN ds[2].val :
        ds[1].val[key] # ds[2].val[key] /\ doc[key] = ds[2].val[key]

\* C5: two files that are both parsed define the same root object with
\* different values, and the document returned has the later file's
C5_Witness ==
    /\ pc = "returned"
    /\ Len(files) = 2
    /\ ~Excluded(files[1].name) /\ ~Excluded(files[2].name)
    /\ LaterWins(result, ParsedAlone)

\* C6: a property line with an odd number of double quotes opens a string that
\* ends at the next line with an odd number: the lines from the one through the
\* other are one value under the opening line's key, and the ordinary properties
\* after the closing line are keys of their own
C6_StringEndsAtNextOddLine ==
    pc = "merge" =>
        \A g \in 1..Len(groups) : BuildsMap(groups[g]) =>
            LET body == Body(groups[g])
                obj  == group_arr[g][get_title(groups[g][1])].v
            IN  \A i \in 1..Len(body) :
                    (Opens(body, i) /\ NextOdd(body, i) # 0 /\ KeyOnce(body, i)) =>
                        LET c == NextOdd(body, i)
                            n == NextOdd(body, c)
                        IN  /\ KeyOf(body[i]) \in DOMAIN obj
                            /\ obj[KeyOf(body[i])]
                                 = Str(Join(<<ValueOf(body[i])>> \o SubSeq(body, i + 1, c), "\n"))
                            /\ \A j \in (c + 1)..(IF n = 0 THEN Len(body) ELSE n - 1) :
                                    (IsPlain(body[j]) /\ KeyOnce(body, j)) =>
                                        /\ KeyOf(body[j]) \in DOMAIN obj
                                        /\ obj[KeyOf(body[j])] = Str(ValueOf(body[j]))

\* the groups hold a line that opens a string no later line of its body closes,
\* and nothing else in them makes orchestrate fail
UnclosedQuote(gs, line) ==
    \E g \in 1..Len(gs) :
        /\ BuildsMap(gs[g])
        /\ \E i \in 1..Len(Body(gs[g])) :
                /\ Body(gs[g])[i] = line
                /\ Opens(Body(gs[g]), i)
                /\ NextOdd(Body(gs[g]), i) = 0
        /\ \A h \in 1..Len(gs) : h # g => ~orchestrate(gs[h]).err

\* C8: when a property line has an odd number of double quotes and no later line
\* of its body has, the call fails with an error naming that line; the line is
\* not taken for a one-line property and the parse does not go on
C8_UnclosedQuoteFails ==
    \A line \in Range(file_arr) :
        (pc \in {"merge", "raised"}
         /\ ~group_objects(file_arr).err
         /\ UnclosedQuote(group_objects(file_arr).val, line)) =>
            /\ pc = "raised"
            /\ Contains(error, Strip(line))

\* C7, as stated: an ObjectMap is built only from lines whose first ends in an
\* open brace and whose last is the closing brace at the header's indentation,
\* and the balance of every group with an open-brace header is zero at its last
\* line and at no line before
C7_BalancedRanges ==
    pc = "orchestrate" =>
        \A g \in 1..Len(groups) :
            /\ BuildsMap(groups[g]) =>
                  /\ EndsWith(groups[g][1], "{")
                  /\ groups[g][Len(groups[g])] = "}"
                  /\ \A r \in NestedRanges(groups[g]) :
                        EndsWith(r[1], "{") /\ r[Len(r)] = "    }"
            /\ OpenHeader(groups[g]) => ClosesAtLast(groups[g])

\* C7, amended: every nested range orchestrate recurses into starts with a line
\* ending in an open brace and ends with the line "    }"; every group with an
\* open-brace header is a run of the filtered lines and either its balance is
\* zero at its last line and at no line before, or the scan was cut at a line
\* with a rule marker: the group ends just before that line, its balance zero
\* nowhere
C7_BalancedOrCut ==
    pc = "orchestrate" =>
        \A g \in 1..Len(groups) :
            /\ \A r \in NestedRanges(groups[g]) :
                  EndsWith(r[1], "{") /\ r[Len(r)] = "    }"
            /\ OpenHeader(groups[g]) =>
                  /\ \E i \in 1..Len(file_arr) :
                        /\ i + Len(groups[g]) - 1 <= Len(file_arr)
                        /\ SubSeq(file_arr, i, i + Len(groups[g]) - 1) = groups[g]
                  /\ ClosesAtLast(groups[g]) \/ CutAtRule(file_arr, groups[g])

\* C7: group_objects returned a group with a nested object whose balance closes
\* at its last line, and a group cut at the rule header after it
C7_Witness ==
    /\ pc = "orchestrate"
    /\ \E g \in 1..Len(groups) :
            /\ OpenHeader(groups[g]) /\ ClosesAtLast(groups[g])
            /\ NestedRanges(groups[g]) # {}
    /\ \E g \in 1..Len(groups) :
            OpenHeader(groups[g]) /\ CutAtRule(file_arr, groups[g])

\* a is b with its '# ' comment lines stripped and marked, or left as they are
SameButMarked(a, b) ==
    /\ Len(a) = Len(b)
    /\ \A j \in 1..Len(b) :
            \/ a[j] = b[j]
            \/ /\ StartsWith(Strip(b[j]), "# ")
               /\ a[j] = Replace(Strip(b[j]), "# ", "#comment# ")

\* C9: after the preprocessing loop the lines passed through are all the input
\* lines that are neither a directive nor in a directive's body, in their order;
\* the filtered sequence is those lines and then the topology lines, once
C9_LinesKeptInOrder ==
    /\ (pc = "lines" /\ li > Len(file_arr)) =>
            SameButMarked(new_file_arr, NotDiverted(file_arr, 1, FALSE))
    /\ pc = "group" =>
            /\ file_arr = FilterLines(new_file_arr) \o FilterLines(topology_arr)
            /\ Cardinality({j \in 1..Len(file_arr) : file_arr[j] = TopologyHead[1]}) <= 1

\* C10: the script depth counter is 0 at every line outside a script/rule body,
\* and no '# ' line outside a script body is left after the final filter
C10_DepthZeroOutsideScripts ==
    /\ (pc = "lines" /\ li <= Len(file_arr) /\ ~InScript(file_arr, li)) => irule = 0
    /\ pc = "group" =>
            \A j \in 1..Len(RawLines(fi)) :
                (~InScript(RawLines(fi), j) /\ StartsWith(Strip(RawLines(fi)[j]), "# "))
                    => RawLines(fi)[j] \notin Range(file_arr)

=============================================================================
